---- MODULE Spec2Model ----
(***************************************************************************)
(* Castor's delta-decoding switch generators.                              *)
(*                                                                         *)
(* Two scripts are modelled, each run once and independently of the other: *)
(*   - the legacy generator   castor/gendelta.py    (variables l...)       *)
(*   - the newer generator    src/store/gendelta.py (the other variables)  *)
(*                                                                         *)
(* Standard output is a sequence of lines.  A line is a record             *)
(*   [kind, label, body]: kind is "usage", "switch", "case", "default" or  *)
(*   "close"; label is the case label (-1 on the other lines); body is the *)
(*   sequence of statements printed between "case h:" and " break;".       *)
(* A statement is what read() prints:  t[comp] op [cur.readDelta<read>()]  *)
(*   [+] [lit];   read = 0 stands for "no readDelta call printed" and      *)
(*   lit = 0 for "no literal printed".                                     *)
(***************************************************************************)
EXTENDS Integers, Sequences, FiniteSets, TLC

\* Largest number of command-line arguments (after the script name) explored.
MaxArgs == 2

\* Argument values explored: the three modes and one value that is no mode.
ArgValues == {"full", "aggregated", "fullyaggregated", "bogus"}

Modes == {"full", "aggregated", "fullyaggregated"}

VARIABLES argv, pc, what, h, lengths, out, exit, lpc, lh, llengths, lout

vars == <<argv, pc, what, h, lengths, out, exit, lpc, lh, llengths, lout>>

storeVars == <<argv, pc, what, h, lengths, out, exit>>

legacyVars == <<lpc, lh, llengths, lout>>

----------------------------------------------------------------------------
(* Lines of output *)

UsageLine == [kind |-> "usage", label |-> -1, body |-> <<>>]

SwitchLine == [kind |-> "switch", label |-> -1, body |-> <<>>]

DefaultLine == [kind |-> "default", label |-> -1, body |-> <<>>]

CloseLine == [kind |-> "close", label |-> -1, body |-> <<>>]

CaseLine(label, body) == [kind |-> "case", label |-> label, body |-> body]

----------------------------------------------------------------------------
(* Newer generator: src/store/gendelta.py *)

ReadSwappedOp(component, length, offset, add) ==
    IF length = 0 /\ add /\ offset = 0
    THEN [printed |-> <<>>, ret |-> FALSE]
    ELSE [printed |-> <<[comp |-> component,
                         op   |-> IF add THEN "=" ELSE "+=",
                         read |-> IF length > 0 THEN length ELSE 0,
                         lit  |-> IF offset # 0 THEN offset ELSE 0]>>,
          ret |-> TRUE]

ReadNoWidth(component, length, offset, add) ==
    IF length = 0 /\ add /\ offset = 0
    THEN [printed |-> <<>>, ret |-> FALSE]
    ELSE [printed |-> <<[comp |-> component,
                         op   |-> IF add THEN "+=" ELSE "=",
                         read |-> IF length > 0 THEN 1 ELSE 0,
                         lit  |-> IF offset # 0 THEN offset ELSE 0]>>,
          ret |-> TRUE]

\* read(component, length, offset, add): what it prints and what it returns.
Read(component, length, offset, add) ==
    IF length = 0 /\ add /\ offset = 0
    THEN [printed |-> <<>>, ret |-> FALSE]
    ELSE [printed |-> <<[comp |-> component,
                         op   |-> IF add THEN "+=" ELSE "=",
                         read |-> IF length > 0 THEN length ELSE 0,
                         lit  |-> IF offset # 0 THEN offset ELSE 0]>>,
          ret |-> TRUE]

TooLongOffByOne(ls) == \E i \in DOMAIN ls : ls[i] > 5

\* any(l > 4 for l in lengths)
TooLong(ls) == \E i \in DOMAIN ls : ls[i] > 4

FullLengthsNoMod(hh) == <<hh \div 25, hh \div 5, hh % 5>>

\* lengths of the full mode loop
FullLengths(hh) == <<hh \div 25, (hh % 25) \div 5, hh % 5>>

\* lengths of the aggregated mode loop
AggregatedLengths(hh) == <<hh \div 25, (hh % 25) \div 5, hh % 5>>

\* lengths of the fullyaggregated mode loop
FullyAggregatedLengths(hh) == <<hh \div 5, hh % 5>>

FullBodyOffsets(ls) ==
    LET r0   == Read(0, ls[1], 0, TRUE)
        add0 == ~r0.ret
        r1   == Read(1, ls[2], IF add0 THEN 0 ELSE 1, add0)
        add1 == ~r1.ret
        r2   == Read(2, ls[3], IF add1 THEN 1 ELSE 128, add1)
    IN  r0.printed \o r1.printed \o r2.printed

FullBodyStickyAdd(ls) ==
    LET r0   == Read(0, ls[1], 0, TRUE)
        add0 == ~r0.ret
        r1   == Read(1, ls[2], IF add0 THEN 0 ELSE 1, TRUE)
        add1 == ~r1.ret
        r2   == Read(2, ls[3], IF add1 THEN 128 ELSE 1, TRUE)
    IN  r0.printed \o r1.printed \o r2.printed

\* The three read() calls of one full mode iteration, with the add flag
\* threaded through them; the value is the text printed.
FullBody(ls) ==
    LET r0   == Read(0, ls[1], 0, TRUE)
        add0 == ~r0.ret
        r1   == Read(1, ls[2], IF add0 THEN 0 ELSE 1, add0)
        add1 == ~r1.ret
        r2   == Read(2, ls[3], IF add1 THEN 128 ELSE 1, add1)
    IN  r0.printed \o r1.printed \o r2.printed

AggregatedBodyLikeFull(ls) ==
    LET r0   == Read(0, ls[1], 0, TRUE)
        add0 == ~r0.ret
        r1   == Read(1, ls[2], IF add0 THEN 0 ELSE 1, add0)
        r2   == Read(2, ls[3], 1, FALSE)
    IN  r0.printed \o r1.printed \o r2.printed

\* The three read() calls of one aggregated mode iteration.
AggregatedBody(ls) ==
    LET r0   == Read(0, ls[1], 0, TRUE)
        add0 == ~r0.ret
        r1   == Read(1, ls[2], 1, add0)
        r2   == Read(2, ls[3], 1, FALSE)
    IN  r0.printed \o r1.printed \o r2.printed

FullyAggregatedBodyNoOffset(ls) ==
    LET r0 == Read(0, ls[1], 0, TRUE)
        r1 == Read(1, ls[2], 1, FALSE)
    IN  r0.printed \o r1.printed

\* The two read() calls of one fullyaggregated mode iteration.
FullyAggregatedBody(ls) ==
    LET r0 == Read(0, ls[1], 1, TRUE)
        r1 == Read(1, ls[2], 1, FALSE)
    IN  r0.printed \o r1.printed

\* if len(sys.argv) != 2: usage, exit(1)
ArgCheck ==
    /\ pc = "argcheck"
    /\ IF Len(argv) # 2
       THEN /\ out' = Append(out, UsageLine)
            /\ exit' = 1
            /\ pc' = "exited"
       ELSE /\ pc' = "begin"
            /\ UNCHANGED <<out, exit>>
    /\ UNCHANGED <<argv, what, h, lengths>>
    /\ UNCHANGED legacyVars

\* what = sys.argv[1]; print("switch(header & 127) {")
Begin ==
    /\ pc = "begin"
    /\ what' = argv[2]
    /\ out' = Append(out, SwitchLine)
    /\ pc' = "loop"
    /\ UNCHANGED <<argv, h, lengths, exit>>
    /\ UNCHANGED legacyVars

\* one iteration of: for h in range(128) under what == 'full'
FullIter ==
    /\ pc = "loop"
    /\ what = "full"
    /\ h + 1 < 128
    /\ h' = h + 1
    /\ lengths' = FullLengths(h')
    /\ out' = IF TooLong(lengths')
              THEN out
              ELSE Append(out, CaseLine(h', FullBody(lengths')))
    /\ UNCHANGED <<argv, pc, what, exit>>
    /\ UNCHANGED legacyVars

\* one iteration of: for h in range(128) under what == 'aggregated'
AggregatedIter ==
    /\ pc = "loop"
    /\ what = "aggregated"
    /\ h + 1 < 128
    /\ h' = h + 1
    /\ lengths' = AggregatedLengths(h')
    /\ out' = IF TooLong(lengths')
              THEN out
              ELSE Append(out, CaseLine(h', AggregatedBody(lengths')))
    /\ UNCHANGED <<argv, pc, what, exit>>
    /\ UNCHANGED legacyVars

\* one iteration of: for h in range(25) under what == 'fullyaggregated'
FullyAggregatedIter ==
    /\ pc = "loop"
    /\ what = "fullyaggregated"
    /\ h + 1 < 25
    /\ h' = h + 1
    /\ lengths' = FullyAggregatedLengths(h')
    /\ out' = IF TooLong(lengths')
              THEN out
              ELSE Append(out, CaseLine(h', FullyAggregatedBody(lengths')))
    /\ UNCHANGED <<argv, pc, what, exit>>
    /\ UNCHANGED legacyVars

\* The if/elif chain is left (the selected loop is exhausted, or no branch
\* matches what); the default branch and the closing brace are printed and
\* the script ends normally.
Finish ==
    /\ pc = "loop"
    /\ what \in {"full", "aggregated"} => h + 1 = 128
    /\ what = "fullyaggregated" => h + 1 = 25
    /\ out' = out \o <<DefaultLine, CloseLine>>
    /\ exit' = 0
    /\ pc' = "done"
    /\ UNCHANGED <<argv, what, h, lengths>>
    /\ UNCHANGED legacyVars

----------------------------------------------------------------------------
(* Legacy generator: castor/gendelta.py *)

\* read(component, length, offset, add) of the legacy generator
LegacyRead(component, length, offset, add) ==
    IF length = 0 /\ add /\ offset = 0
    THEN [printed |-> <<>>, ret |-> FALSE]
    ELSE [printed |-> <<[comp |-> component,
                         op   |-> IF add THEN "+=" ELSE "=",
                         read |-> IF length > 0 THEN length ELSE 0,
                         lit  |-> IF offset # 0 THEN offset ELSE 0]>>,
          ret |-> TRUE]

\* lengths of the legacy loop
LegacyLengths(hh) == <<hh \div 25, (hh % 25) \div 5, hh % 5>>

LegacyBodyOffsets(ls) ==
    LET r0   == LegacyRead("a", ls[1], 0, TRUE)
        add0 == ~r0.ret
        r1   == LegacyRead("b", ls[2], IF add0 THEN 0 ELSE 1, add0)
        add1 == ~r1.ret
        r2   == LegacyRead("c", ls[3], IF add1 THEN 128 ELSE 0, add1)
    IN  r0.printed \o r1.printed \o r2.printed

\* The three read() calls of one legacy iteration.
LegacyBody(ls) ==
    LET r0   == LegacyRead("a", ls[1], 0, TRUE)
        add0 == ~r0.ret
        r1   == LegacyRead("b", ls[2], IF add0 THEN 0 ELSE 1, add0)
        add1 == ~r1.ret
        r2   == LegacyRead("c", ls[3], IF add1 THEN 128 ELSE 1, add1)
    IN  r0.printed \o r1.printed \o r2.printed

\* print("switch(header & 127) {")
LegacyBegin ==
    /\ lpc = "begin"
    /\ lout' = Append(lout, SwitchLine)
    /\ lpc' = "loop"
    /\ UNCHANGED <<lh, llengths>>
    /\ UNCHANGED storeVars

\* one iteration of: for h in range(128)
LegacyIter ==
    /\ lpc = "loop"
    /\ lh + 1 < 128
    /\ lh' = lh + 1
    /\ llengths' = LegacyLengths(lh')
    /\ lout' = IF TooLong(llengths')
               THEN lout
               ELSE Append(lout, CaseLine(lh', LegacyBody(llengths')))
    /\ UNCHANGED lpc
    /\ UNCHANGED storeVars

\* the default branch and the closing brace
LegacyFinish ==
    /\ lpc = "loop"
    /\ lh + 1 = 128
    /\ lout' = lout \o <<DefaultLine, CloseLine>>
    /\ lpc' = "done"
    /\ UNCHANGED <<lh, llengths>>
    /\ UNCHANGED storeVars

----------------------------------------------------------------------------
(* The two runs *)

RECURSIVE SeqsUpTo(_, _)
SeqsUpTo(S, n) ==
    IF n = 0 THEN {<<>>}
    ELSE LET shorter == SeqsUpTo(S, n - 1)
         IN  shorter \cup {Append(s, x) : s \in shorter, x \in S}

\* sys.argv: the script name followed by at most MaxArgs arguments
ArgVectors == {<<"gendelta.py">> \o s : s \in SeqsUpTo(ArgValues, MaxArgs)}

\* h, lengths and what are unbound until first assigned: -1, <<>> and "".
\* exit is -1 while the script runs.
Init ==
    /\ argv \in ArgVectors
    /\ pc = "argcheck"
    /\ what = ""
    /\ h = -1
    /\ lengths = <<>>
    /\ out = <<>>
    /\ exit = -1
    /\ lpc = "begin"
    /\ lh = -1
    /\ llengths = <<>>
    /\ lout = <<>>

Next ==
    \/ ArgCheck
    \/ Begin
    \/ FullIter
    \/ AggregatedIter
    \/ FullyAggregatedIter
    \/ Finish
    \/ LegacyBegin
    \/ LegacyIter
    \/ LegacyFinish

Spec == Init /\ [][Next]_vars

----------------------------------------------------------------------------
(* Reading the output back *)

IsCase(line) == line.kind = "case"

\* the case lines of an output, in the order written
Cases(o) == SelectSeq(o, IsCase)

NoneDecision == [op |-> "NONE", read |-> 0, lit |-> 0]

\* The decision an entry holds for field c: the statement on t[c], or NONE
\* when the entry has no statement on t[c].
Dec(line, c) ==
    LET S == {k \in DOMAIN line.body : line.body[k].comp = c}
    IN  IF S = {} THEN NoneDecision
        ELSE LET k == CHOOSE x \in S : TRUE
             IN  [op   |-> line.body[k].op,
                  read |-> line.body[k].read,
                  lit  |-> line.body[k].lit]

DecSeq(line) == <<Dec(line, 0), Dec(line, 1), Dec(line, 2)>>

\* the flag entering field c, as the claims define it
PendingAdd(line, c) == c = 0 \/ Dec(line, c - 1).op = "NONE"

CompIndex == [a |-> 0, b |-> 1, c |-> 2]

\* a legacy line with t.a, t.b, t.c read as t[0], t[1], t[2]
Rename(line) ==
    [line EXCEPT !.body = [k \in DOMAIN line.body |->
                             [line.body[k] EXCEPT !.comp = CompIndex[@]]]]

CaseSet(o) == {o[i] : i \in {j \in DOMAIN o : o[j].kind = "case"}}

\* the entries written so far by the newer generator in the given mode
ModeEntries(m) == IF what = m THEN CaseSet(out) ELSE {}

\* the entries written so far by the legacy generator
LegacyEntries == {Rename(l) : l \in CaseSet(lout)}

\* full-mode entries of either generator
FullEntries == ModeEntries("full") \cup LegacyEntries

\* the entry the full mode code computes for a valid header code
FullEntryOf(hh) == CaseLine(hh, FullBody(FullLengths(hh)))

UpTo(o, n) == SelectSeq(Cases(o), LAMBDA l : l.label <= n)

Min(a, b) == IF a <= b THEN a ELSE b

----------------------------------------------------------------------------
(* Claims *)

\* C1: run with exactly one argument that is none of 'full', 'aggregated',
\* 'fullyaggregated', the newer generator prints a usage message and ends
\* with a non-zero exit status without printing any part of the switch.
C1_InvalidModeRejected ==
    (Len(argv) = 2 /\ argv[2] \notin Modes) =>
        /\ \A i \in DOMAIN out : out[i].kind \notin {"switch", "case", "default"}
        /\ pc \in {"done", "exited"} =>
               /\ exit > 0
               /\ \E i \in DOMAIN out : out[i].kind = "usage"

\* C2: in each mode the case labels written are exactly the valid header
\* codes in increasing order, each once (0..124 for the legacy generator,
\* full and aggregated; 0..24 for fullyaggregated); 125, 126, 127 get no
\* entry; one default branch follows the last case.
C2_CaseLabels ==
    /\ \A i \in DOMAIN Cases(out) : Cases(out)[i].label = i - 1
    /\ \A i \in DOMAIN Cases(lout) : Cases(lout)[i].label = i - 1
    /\ \A i \in DOMAIN out : out[i].kind = "case" => out[i].label < 125
    /\ \A i \in DOMAIN lout : lout[i].kind = "case" => lout[i].label < 125
    /\ (pc = "loop" /\ what \in Modes) => out = <<SwitchLine>> \o Cases(out)
    /\ lpc = "loop" => lout = <<SwitchLine>> \o Cases(lout)
    /\ (pc = "done" /\ what \in Modes) =>
           /\ out = <<SwitchLine>> \o Cases(out) \o <<DefaultLine, CloseLine>>
           /\ Len(Cases(out)) = IF what = "fullyaggregated" THEN 25 ELSE 125
    /\ lpc = "done" =>
           /\ lout = <<SwitchLine>> \o Cases(lout) \o <<DefaultLine, CloseLine>>
           /\ Len(Cases(lout)) = 125

C2_Witness ==
    /\ pc = "done" /\ what = "aggregated" /\ Len(out) = 128
    /\ lpc = "done" /\ Len(lout) = 128

\* C3 as stated: in full mode every emitted field has operator ASSIGN ('=')
\* when the pendingAdd flag entering it is true and ADD ('+=') when it is
\* false; header code 0 yields NONE, NONE, ASSIGN of the literal 128.
C3_Original ==
    \A l \in ModeEntries("full") :
        /\ \A c \in 0..2 :
               Dec(l, c).op # "NONE" =>
                   Dec(l, c).op = IF PendingAdd(l, c) THEN "=" ELSE "+="
        /\ l.label = 0 =>
               DecSeq(l) = <<NoneDecision, NoneDecision,
                             [op |-> "=", read |-> 0, lit |-> 128]>>

\* C3 amended: in full mode every emitted field has operator ADD ('+=') when
\* the pendingAdd flag entering it is true and ASSIGN ('=') when it is
\* false; header code 0 yields NONE, NONE, ADD of the literal 128.
C3_Amended ==
    \A l \in ModeEntries("full") :
        /\ \A c \in 0..2 :
               Dec(l, c).op # "NONE" =>
                   Dec(l, c).op = IF PendingAdd(l, c) THEN "+=" ELSE "="
        /\ l.label = 0 =>
               DecSeq(l) = <<NoneDecision, NoneDecision,
                             [op |-> "+=", read |-> 0, lit |-> 128]>>

C3_Witness ==
    /\ what = "full" /\ pc = "loop" /\ h = 31
    /\ \E l \in ModeEntries("full") : l.label = 0 /\ Len(l.body) = 1
    /\ \E l \in ModeEntries("full") : l.label = 31 /\ Len(l.body) = 3

\* C4: in full mode field 0 is given literal offset 0; field 1 is given 0
\* when field 0 is NONE and 1 when field 0 is emitted; field 2 is given 128
\* when field 1 is NONE and 1 when field 1 is emitted; no other offset
\* appears in an entry.
C4_FullOffsets ==
    \A l \in FullEntries :
        /\ Dec(l, 0).lit = 0
        /\ Dec(l, 1).lit = IF Dec(l, 0).op = "NONE" THEN 0 ELSE 1
        /\ Dec(l, 2).lit = IF Dec(l, 1).op = "NONE" THEN 128 ELSE 1
        /\ \A k \in DOMAIN l.body : l.body[k].lit \in {0, 1, 128}

C4_Witness ==
    /\ what = "full" /\ pc = "done" /\ lpc = "loop" /\ lh = 30
    /\ \E l \in FullEntries : Dec(l, 1).lit = 0 /\ Dec(l, 2).lit = 128
    /\ \E l \in FullEntries : Dec(l, 1).lit = 1 /\ Dec(l, 2).lit = 1

\* C5 as stated: in aggregated mode the decisions for field 0 and field 1
\* are those full mode produces for the same header code.
C5_Original ==
    \A l \in ModeEntries("aggregated") :
        \A c \in 0..1 : Dec(l, c) = Dec(FullEntryOf(l.label), c)

\* C5 amended: in aggregated mode the decision for field 0 is full mode's;
\* the decision for field 1 is full mode's when field 0 is emitted (header
\* codes 25..124); when field 0 is NONE (header codes 0..24) field 1 is
\* always emitted, as ADD with full mode's read width and literal offset 1,
\* where full mode gives offset 0.
C5_Amended ==
    \A l \in ModeEntries("aggregated") :
        LET f == FullEntryOf(l.label)
        IN  /\ Dec(l, 0) = Dec(f, 0)
            /\ (Dec(l, 0).op # "NONE") = (l.label >= 25)
            /\ Dec(l, 0).op # "NONE" => Dec(l, 1) = Dec(f, 1)
            /\ Dec(l, 0).op = "NONE" =>
                   /\ Dec(l, 1) = [op |-> "+=", read |-> Dec(f, 1).read, lit |-> 1]
                   /\ Dec(f, 1).lit = 0
                   /\ Dec(l, 1).read = (l.label % 25) \div 5

C5_Witness ==
    /\ what = "aggregated" /\ pc = "done"
    /\ \E l \in ModeEntries("aggregated") : l.label = 0 /\ Len(l.body) = 2
    /\ \E l \in ModeEntries("aggregated") : l.label = 124 /\ Len(l.body) = 3
    /\ lpc = "begin"

\* C6: in fullyaggregated mode no decision is NONE: every entry has a
\* statement for field 0 and one for field 1, also at width 0.
C6_NeverNone ==
    \A l \in ModeEntries("fullyaggregated") :
        /\ \A c \in 0..1 : Dec(l, c).op # "NONE"
        /\ Len(l.body) = 2

C6_Witness ==
    /\ what = "fullyaggregated" /\ pc = "done"
    /\ Cardinality(ModeEntries("fullyaggregated")) = 25
    /\ \E l \in ModeEntries("fullyaggregated") :
           l.label = 0 /\ Dec(l, 0).read = 0 /\ Dec(l, 1).read = 0

\* C7: within a mode two distinct header codes never have the same
\* sequence of per-field decisions.
C7_Injective ==
    (pc = "done" /\ what \in Modes) =>
        LET cs == Cases(out)
        IN  \A i \in DOMAIN cs : \A j \in DOMAIN cs :
                (i < j /\ cs[i].label # cs[j].label) => DecSeq(cs[i]) # DecSeq(cs[j])

C7_Witness ==
    /\ pc = "done" /\ what = "full" /\ Len(Cases(out)) = 125
    /\ lpc = "loop" /\ lh = 0

\* C8: for h in 0..124 the digits h div 25, (h mod 25) div 5, h mod 5 lie in
\* 0..4 and a*25 + b*5 + c = h; for h in 0..24 the digits h div 5, h mod 5
\* lie in 0..4 and a*5 + b = h.
C8_RoundTrip ==
    /\ (what \in {"full", "aggregated"} /\ h \in 0..124) =>
           /\ Len(lengths) = 3
           /\ \A i \in 1..3 : lengths[i] \in 0..4
           /\ lengths[1] * 25 + lengths[2] * 5 + lengths[3] = h
    /\ (what = "fullyaggregated" /\ h \in 0..24) =>
           /\ Len(lengths) = 2
           /\ \A i \in 1..2 : lengths[i] \in 0..4
           /\ lengths[1] * 5 + lengths[2] = h
    /\ lh \in 0..124 =>
           /\ Len(llengths) = 3
           /\ \A i \in 1..3 : llengths[i] \in 0..4
           /\ llengths[1] * 25 + llengths[2] * 5 + llengths[3] = lh

C8_Witness ==
    /\ what = "full" /\ h = 124 /\ lengths = <<4, 4, 4>>
    /\ lh = 37 /\ llengths = <<1, 2, 2>>

\* C9: in full mode an entry is zero or more NONE decisions, then exactly
\* one '+=' statement, then only '=' statements with literal offset 1;
\* so field 2 is never NONE and no entry is empty.
C9_Shape ==
    \A l \in FullEntries :
        /\ \E k \in 0..2 :
               /\ \A c \in 0..2 : c < k => Dec(l, c).op = "NONE"
               /\ Dec(l, k).op = "+="
               /\ \A c \in 0..2 : c > k => Dec(l, c).op = "=" /\ Dec(l, c).lit = 1
        /\ Dec(l, 2).op # "NONE"
        /\ Len(l.body) >= 1

C9_Witness ==
    /\ what = "full" /\ pc = "loop" /\ h = 127
    /\ lpc = "done"
    /\ \E l \in FullEntries : Len(l.body) = 1
    /\ \E l \in FullEntries : Len(l.body) = 2
    /\ \E l \in FullEntries : Len(l.body) = 3

\* C10: the legacy generator and the newer generator in full mode write the
\* same table: for every raw header code both have processed, either
\* neither wrote an entry or both wrote the same entry up to the field's
\* name; the finished outputs are equal up to the field's name.
C10_LegacyEqualsFull ==
    what = "full" =>
        /\ LET n == Min(h, lh)
               ls == UpTo(lout, n)
               ss == UpTo(out, n)
           IN  /\ Len(ls) = Len(ss)
               /\ \A i \in DOMAIN ls : Rename(ls[i]) = ss[i]
        /\ (pc = "done" /\ lpc = "done") =>
               /\ Len(out) = Len(lout)
               /\ \A i \in DOMAIN out : Rename(lout[i]) = out[i]

C10_Witness ==
    /\ what = "full" /\ pc = "done" /\ lpc = "done"
    /\ Len(Cases(out)) = 125 /\ Len(Cases(lout)) = 125
    /\ h = 127 /\ lh = 127

====
